---- MODULE Spec2Model ----
(***************************************************************************)
(* generate_graphs.py: loading of the benchmark CSV tables, the            *)
(* groupby(...).last() aggregation, the two chart renderers working on     *)
(* pyplot's stack of open figures, process_device and main.                *)
(*                                                                         *)
(* A table is the sequence of its rows in file order; a row is a record    *)
(* [io_size, stride_size, mean, ci95]; an empty CSV cell is NaN.  Tables   *)
(* that load carry the required columns (spec section 6).                  *)
(***************************************************************************)
EXTENDS Integers, Sequences, FiniteSets, TLC

\* pandas' missing value: what read_csv gives for an empty cell.
NaN == -1

\* Bounds of the model.
MaxRows == 2
MaxFaults == 2
MaxRuns == 2

--------------------------------------------------------------------------
\* Program constants.

\* plot_stride, line 39.
io_sizes == <<4096, 65536, 524288, 1048576, 10485760>>

\* main, lines 87 and 90: the two devices in call order.
Devices ==
  << [dir |-> "hdd_benchmark_results", name |-> "HDD"],
     [dir |-> "ssd_benchmark_results", name |-> "SSD"] >>

\* process_device, lines 65-70: the six tables in load order.
Files ==
  << "sequential_size_read", "sequential_size_write", "random_read",
     "random_write", "stride_read", "stride_write" >>

CallsStrideFirst ==
  << [fn |-> "plot_stride", operation |-> "read"],
     [fn |-> "plot_stride", operation |-> "write"],
     [fn |-> "plot_io_size", operation |-> "read"],
     [fn |-> "plot_io_size", operation |-> "write"] >>

\* process_device, lines 73-76: the four renderer calls in order.
Calls ==
  << [fn |-> "plot_io_size", operation |-> "read"],
     [fn |-> "plot_io_size", operation |-> "write"],
     [fn |-> "plot_stride", operation |-> "read"],
     [fn |-> "plot_stride", operation |-> "write"] >>

ExistOkFalse == FALSE

\* os.makedirs(output_dir, exist_ok=True), lines 62 and 84.
ExistOk == TRUE

DeviceNames == {Devices[d].name : d \in 1..Len(Devices)}
FileSet == {Files[j] : j \in 1..Len(Files)}
Kinds == {"io_size", "stride"}
Operations == {"read", "write"}

\* The output files: {output_dir}/{kind}_{device}_{operation}.png, lines 32, 57.
ChartPath(kind, device, operation) ==
  [kind |-> kind, device |-> device, operation |-> operation]

ChartPaths == [kind : Kinds, device : DeviceNames, operation : Operations]

--------------------------------------------------------------------------
\* Tables.

Row(io, stride, mean, ci) ==
  [io_size |-> io, stride_size |-> stride, mean |-> mean, ci95 |-> ci]

Last(s) == s[Len(s)]
Front(s) == SubSeq(s, 1, Len(s) - 1)
Range(s) == {s[j] : j \in 1..Len(s)}
MaxOf(S) == CHOOSE x \in S : \A y \in S : y <= x
MinOf(S) == CHOOSE x \in S : \A y \in S : x <= y

RECURSIVE SortedSeq(_)
SortedSeq(S) ==
  IF S = {} THEN <<>> ELSE <<MinOf(S)>> \o SortedSeq(S \ {MinOf(S)})

RECURSIVE Unique(_)
\* The values of a sequence in order of first appearance.
Unique(s) ==
  IF s = <<>> THEN <<>>
  ELSE LET u == Unique(Front(s))
       IN  IF Last(s) \in Range(u) THEN u ELSE Append(u, Last(s))

Column(data, col) == [j \in 1..Len(data) |-> data[j][col]]

GroupKeysUnsorted(data, by) ==
  SelectSeq(Unique(Column(data, by)), LAMBDA v : v # NaN)

\* DataFrame.groupby(by): sort=True and dropna=True are the defaults, so the
\* group keys are the distinct non-missing values of the column, ascending.
GroupKeys(data, by) == SortedSeq(Range(Column(data, by)) \ {NaN})

\* GroupBy[col].last() for one group: the last non-missing entry of the
\* column in the group (last() skips missing entries), NaN when there is none.
GroupLast(data, by, key, col) ==
  LET idx == {j \in 1..Len(data) : data[j][by] = key /\ data[j][col] # NaN}
  IN  IF idx = {} THEN NaN ELSE data[MaxOf(idx)][col]

\* data.groupby(by)[col].last(): a Series, its index the group keys.
GroupByLast(data, by, col) ==
  LET keys == GroupKeys(data, by)
  IN  [index |-> keys,
       values |-> [j \in 1..Len(keys) |-> GroupLast(data, by, keys[j], col)]]

\* means = data.groupby(by)['mean'].last(); ci95 = data.groupby(by)['ci95'].last();
\* plt.errorbar(means.index, means.values, yerr=ci95.values, label=label):
\* the series added to the current figure (lines 13-16, 19-22, 44-47).
Errorbar(data, by, label) ==
  LET means == GroupByLast(data, by, "mean")
      ci95  == GroupByLast(data, by, "ci95")
  IN  [label |-> label, x |-> means.index, y |-> means.values,
       yerr |-> ci95.values]

\* format(n / d, '.0f'): the quotient rounded to an integer, ties to even.
RoundDiv(n, d) ==
  LET q == n \div d
      r == n % d
  IN  IF 2 * r < d THEN q
      ELSE IF 2 * r > d THEN q + 1
      ELSE IF q % 2 = 0 THEN q ELSE q + 1

\* f'IO Size={io_size/1024:.0f}KB', line 47.
StrideLabel(io_size) == [text |-> "IO Size", kb |-> RoundDiv(io_size, 1024)]

IoLabel(text) == [text |-> text, kb |-> 0]

FilterAtLeast(data, io_size) ==
  SelectSeq(data, LAMBDA r : r.io_size # NaN /\ r.io_size >= io_size)

\* stride_data[stride_data['io_size'] == io_size], line 42.
FilterIoSize(data, io_size) == SelectSeq(data, LAMBDA r : r.io_size = io_size)

--------------------------------------------------------------------------
\* Inputs.

FileIndex(f) == CHOOSE j \in 1..Len(Files) : Files[j] = f
IsStrideFile(f) == f \in {"stride_read", "stride_write"}

\* The benchmark tables of device d as the benchmark tool wrote them: every
\* table differs from every other, and every table repeats a key.
SampleTable(d, f) ==
  LET base == 100 * d + 10 * FileIndex(f)
  IN  IF IsStrideFile(f)
      THEN << Row(4096, 1024, base + 1, 1), Row(4096, 512, base + 2, 2),
              Row(1048576, 512, base + 3, 3), Row(2048, 512, base + 4, 4),
              Row(4096, 512, base + 5, 5) >>
      ELSE << Row(65536, NaN, base + 1, 1), Row(4096, NaN, base + 2, 2),
              Row(4096, NaN, base + 3, 3) >>

\* Rows of a sequential or random table (no stride_size column).
SizeRows ==
  {Row(io, NaN, m, c) : io \in {4096, 65536}, m \in {10, 20, NaN},
                        c \in {1, NaN}}
    \cup {Row(NaN, NaN, 10, 1)}

\* Rows of a stride table: io_size is the first or the last of the fixed
\* sizes, or none of them.
StrideRows ==
  {Row(io, s, m, 1) : io \in {4096, 10485760, 2048}, s \in {1024, 512},
                      m \in {10, 20}}

SeqsUpTo(S, n) == UNION {[1..m -> S] : m \in 0..n}

RECURSIVE SubsetsUpTo(_, _)
SubsetsUpTo(S, n) ==
  IF n = 0 THEN {{}}
  ELSE LET P == SubsetsUpTo(S, n - 1)
       IN  P \cup {A \cup {x} : A \in P, x \in S}

InputPaths == [device : DeviceNames, file : FileSet]

\* What can be wrong with the environment of a run: an input file that is
\* absent, one that read_csv cannot parse, an output path that cannot be
\* opened for writing.
Faults ==
  [type : {"missing", "malformed"}, at : InputPaths]
    \cup [type : {"unwritable"}, at : ChartPaths]

FaultSets ==
  {F \in SubsetsUpTo(Faults, MaxFaults) :
     \A a, b \in F : a.at = b.at => a = b}

StatusIn(F, device, f) ==
  LET at == [device |-> device, file |-> f]
  IN  IF [type |-> "missing", at |-> at] \in F THEN "missing"
      ELSE IF [type |-> "malformed", at |-> at] \in F THEN "malformed"
      ELSE "ok"

--------------------------------------------------------------------------
\* State.

VARIABLES
  fs,          \* the input files: fs[device][file] = [status, rows]
  unwritable,  \* the chart paths that cannot be opened for writing
  dirExists,   \* whether benchmark_plots exists
  plots,       \* benchmark_plots: chart path -> the figure saved there
  run,         \* how many times the script has been started
  prev,        \* plots as it was when the current run started
  pc,          \* the statement the run is at
  dev,         \* main: index of the device being processed
  k,           \* process_device: index of the next load or renderer call
  loaded,      \* process_device: the tables loaded so far
  frame,       \* the arguments of the renderer call in progress
  i,           \* plot_stride: loop index into io_sizes
  figs,        \* pyplot: the open figures, the current one last
  events       \* the file reads, renderer calls and chart writes of the run

vars ==
  << fs, unwritable, dirExists, plots, run, prev, pc, dev, k, loaded, frame,
     i, figs, events >>

NoTables == [f \in FileSet |-> <<>>]

NoFrame ==
  [fn |-> "none", operation |-> "none", seq_data |-> <<>>,
   random_data |-> <<>>, stride_data |-> <<>>]

NoPlots == [p \in {} |-> <<>>]

Event(ev, device, what, operation) ==
  [ev |-> ev, dev |-> device, what |-> what, operation |-> operation]

DeviceName == Devices[dev].name

Init ==
  \E F \in FaultSets :
    /\ fs = [d \in DeviceNames |-> [f \in FileSet |->
               [status |-> StatusIn(F, d, f),
                rows |-> IF StatusIn(F, d, f) = "ok"
                         THEN SampleTable(
                                CHOOSE n \in 1..Len(Devices) :
                                  Devices[n].name = d, f)
                         ELSE <<>>]]]
    /\ unwritable = {a.at : a \in {b \in F : b.type = "unwritable"}}
    /\ dirExists = FALSE
    /\ plots = NoPlots
    /\ run = 1
    /\ prev = NoPlots
    /\ pc = "main"
    /\ dev = 0
    /\ k = 1
    /\ loaded = NoTables
    /\ frame = NoFrame
    /\ i = 1
    /\ figs = <<>>
    /\ events = <<>>

--------------------------------------------------------------------------
\* Library calls.

\* os.makedirs(path, exist_ok): raises FileExistsError when the directory
\* exists and exist_ok is false.
MakedirsRaises == dirExists /\ ~ExistOk

ReadCsvRaisesOnMalformedOnly(file) == file.status = "malformed"

\* pd.read_csv(filepath), line 7: raises when the file is absent or cannot
\* be parsed.
ReadCsvRaises(file) == file.status # "ok"

PropagateIsolated == [pc |-> "call", dev |-> dev + 1]

\* An exception: nothing in process_device (60-76) or main (78-90) catches
\* it, so the run ends where it is raised.
Propagate == [pc |-> "error", dev |-> dev]

\* plt.figure(...), lines 10 and 36: a new empty figure, made current.
PltFigure(open) == Append(open, <<>>)

\* plt.errorbar(...): the series is added to the current figure.
PltErrorbar(open, series) ==
  [open EXCEPT ![Len(open)] = Append(open[Len(open)], series)]

PltCloseNothing(open) == open

\* plt.close(), lines 33 and 58: the current figure is released.
PltClose(open) == Front(open)

SavefigAppend(files, path, figure) ==
  [p \in DOMAIN files \cup {path} |->
     IF p = path
     THEN (IF p \in DOMAIN files THEN files[p] ELSE <<>>) \o figure
     ELSE files[p]]

\* plt.savefig(path), lines 32 and 57: the file at path is created or
\* replaced by the image of the current figure.
Savefig(files, path, figure) ==
  [p \in DOMAIN files \cup {path} |-> IF p = path THEN figure ELSE files[p]]

--------------------------------------------------------------------------
\* main and process_device.

CurrentFigure == Last(figs)

\* Lines 78-84: main creates the output directory.
MainMakedirs ==
  /\ pc = "main"
  /\ IF MakedirsRaises
     THEN /\ pc' = Propagate.pc
          /\ UNCHANGED << dirExists, dev >>
     ELSE /\ pc' = "call"
          /\ dirExists' = TRUE
          /\ dev' = 1
  /\ UNCHANGED << fs, unwritable, plots, run, prev, k, loaded, frame, i, figs,
                  events >>

\* Lines 87, 90 and 60-62: process_device is called for the next device and
\* makes sure the output directory exists.
ProcessDevice ==
  /\ pc = "call"
  /\ dev <= Len(Devices)
  /\ IF MakedirsRaises
     THEN /\ pc' = Propagate.pc
          /\ dev' = Propagate.dev
          /\ UNCHANGED dirExists
     ELSE /\ pc' = "load"
          /\ dirExists' = TRUE
          /\ UNCHANGED dev
  /\ k' = 1
  /\ loaded' = NoTables
  /\ UNCHANGED << fs, unwritable, plots, run, prev, frame, i, figs, events >>

\* Lines 65-70 and 6-7: the k-th table is read.
LoadData ==
  /\ pc = "load"
  /\ ~ReadCsvRaises(fs[DeviceName][Files[k]])
  /\ loaded' = [loaded EXCEPT ![Files[k]] = fs[DeviceName][Files[k]].rows]
  /\ events' = Append(events, Event("read", DeviceName, Files[k], ""))
  /\ IF k < Len(Files)
     THEN k' = k + 1 /\ pc' = "load"
     ELSE k' = 1 /\ pc' = "plot"
  /\ UNCHANGED << fs, unwritable, dirExists, plots, run, prev, dev, frame, i,
                  figs >>

\* Lines 65-70 and 6-7: read_csv raises on the k-th file.
LoadDataRaises ==
  /\ pc = "load"
  /\ ReadCsvRaises(fs[DeviceName][Files[k]])
  /\ events' = Append(events, Event("read", DeviceName, Files[k], ""))
  /\ pc' = Propagate.pc
  /\ dev' = Propagate.dev
  /\ UNCHANGED << fs, unwritable, dirExists, plots, run, prev, k, loaded,
                  frame, i, figs >>

\* Line 76 to 87/90: process_device returns to main.
ProcessDeviceReturn ==
  /\ pc = "plot"
  /\ k > Len(Calls)
  /\ pc' = "call"
  /\ dev' = dev + 1
  /\ k' = 1
  /\ loaded' = NoTables
  /\ UNCHANGED << fs, unwritable, dirExists, plots, run, prev, frame, i, figs,
                  events >>

\* Line 90 to the end of main.
MainReturn ==
  /\ pc = "call"
  /\ dev > Len(Devices)
  /\ pc' = "done"
  /\ UNCHANGED << fs, unwritable, dirExists, plots, run, prev, dev, k, loaded,
                  frame, i, figs, events >>

\* Lines 92-93: the script is started again, a new process over the same
\* files.
Rerun ==
  /\ pc \in {"done", "error"}
  /\ run < MaxRuns
  /\ run' = run + 1
  /\ prev' = plots
  /\ pc' = "main"
  /\ dev' = 0
  /\ k' = 1
  /\ loaded' = NoTables
  /\ frame' = NoFrame
  /\ i' = 1
  /\ figs' = <<>>
  /\ events' = <<>>
  /\ UNCHANGED << fs, unwritable, dirExists, plots >>

--------------------------------------------------------------------------
\* plot_io_size, lines 9-33.

\* Lines 73-74 and 9-10: the call and plt.figure.
PlotIoSize ==
  /\ pc = "plot"
  /\ k <= Len(Calls)
  /\ Calls[k].fn = "plot_io_size"
  /\ frame' = [fn |-> "plot_io_size", operation |-> Calls[k].operation,
               seq_data |-> loaded["sequential_size_" \o Calls[k].operation],
               random_data |-> loaded["random_" \o Calls[k].operation],
               stride_data |-> <<>>]
  /\ figs' = PltFigure(figs)
  /\ events' = Append(events,
                 Event("call", DeviceName, "io_size", Calls[k].operation))
  /\ pc' = "io_seq"
  /\ UNCHANGED << fs, unwritable, dirExists, plots, run, prev, dev, k, loaded,
                  i >>

\* Lines 13-16.
IoErrorbarSeq ==
  /\ pc = "io_seq"
  /\ figs' = PltErrorbar(figs,
               Errorbar(frame.seq_data, "io_size", IoLabel("Sequential")))
  /\ pc' = "io_random"
  /\ UNCHANGED << fs, unwritable, dirExists, plots, run, prev, dev, k, loaded,
                  frame, i, events >>

\* Lines 19-22.
IoErrorbarRandom ==
  /\ pc = "io_random"
  /\ figs' = PltErrorbar(figs,
               Errorbar(frame.random_data, "io_size", IoLabel("Random")))
  /\ pc' = "savefig"
  /\ UNCHANGED << fs, unwritable, dirExists, plots, run, prev, dev, k, loaded,
                  frame, i, events >>

--------------------------------------------------------------------------
\* plot_stride, lines 35-58.

\* Lines 75-76 and 35-39: the call and plt.figure.
PlotStride ==
  /\ pc = "plot"
  /\ k <= Len(Calls)
  /\ Calls[k].fn = "plot_stride"
  /\ frame' = [fn |-> "plot_stride", operation |-> Calls[k].operation,
               seq_data |-> <<>>, random_data |-> <<>>,
               stride_data |-> loaded["stride_" \o Calls[k].operation]]
  /\ figs' = PltFigure(figs)
  /\ events' = Append(events,
                 Event("call", DeviceName, "stride", Calls[k].operation))
  /\ i' = 1
  /\ pc' = "stride_loop"
  /\ UNCHANGED << fs, unwritable, dirExists, plots, run, prev, dev, k,
                  loaded >>

StrideLoopNext ==
  IF i < Len(io_sizes) THEN i' = i + 1 /\ pc' = "stride_loop"
  ELSE i' = 1 /\ pc' = "savefig"

\* Lines 41-47: an I/O size with matching rows adds a series.
StrideLoopErrorbar ==
  /\ pc = "stride_loop"
  /\ FilterIoSize(frame.stride_data, io_sizes[i]) # <<>>
  /\ figs' = PltErrorbar(figs,
               Errorbar(FilterIoSize(frame.stride_data, io_sizes[i]),
                        "stride_size", StrideLabel(io_sizes[i])))
  /\ StrideLoopNext
  /\ UNCHANGED << fs, unwritable, dirExists, plots, run, prev, dev, k, loaded,
                  frame, events >>

\* Lines 41-43: an I/O size without matching rows is passed over.
StrideLoopSkip ==
  /\ pc = "stride_loop"
  /\ FilterIoSize(frame.stride_data, io_sizes[i]) = <<>>
  /\ StrideLoopNext
  /\ UNCHANGED << fs, unwritable, dirExists, plots, run, prev, dev, k, loaded,
                  frame, figs, events >>

--------------------------------------------------------------------------
\* The end of both renderers: lines 24-33 and 49-58.

FrameKind == IF frame.fn = "plot_io_size" THEN "io_size" ELSE "stride"
FramePath == ChartPath(FrameKind, DeviceName, frame.operation)

\* Lines 32 and 57: the image of the current figure is written.
PltSavefig ==
  /\ pc = "savefig"
  /\ dirExists
  /\ FramePath \notin unwritable
  /\ plots' = Savefig(plots, FramePath, CurrentFigure)
  /\ events' = Append(events,
                 Event("write", DeviceName, FrameKind, frame.operation))
  /\ pc' = "close"
  /\ UNCHANGED << fs, unwritable, dirExists, run, prev, dev, k, loaded, frame,
                  i, figs >>

\* Lines 32 and 57: the file cannot be opened, savefig raises.
PltSavefigRaises ==
  /\ pc = "savefig"
  /\ ~dirExists \/ FramePath \in unwritable
  /\ pc' = Propagate.pc
  /\ dev' = Propagate.dev
  /\ UNCHANGED << fs, unwritable, dirExists, plots, run, prev, k, loaded, frame,
                  i, figs, events >>

\* Lines 33 and 58: the figure is closed and the renderer returns.
PltCloseReturn ==
  /\ pc = "close"
  /\ figs' = PltClose(figs)
  /\ frame' = NoFrame
  /\ k' = k + 1
  /\ pc' = "plot"
  /\ UNCHANGED << fs, unwritable, dirExists, plots, run, prev, dev, loaded, i,
                  events >>

--------------------------------------------------------------------------
\* The script, run up to MaxRuns times over files with up to MaxFaults faults.

Step ==
  \/ MainMakedirs
  \/ ProcessDevice
  \/ LoadData
  \/ LoadDataRaises
  \/ PlotIoSize
  \/ IoErrorbarSeq
  \/ IoErrorbarRandom
  \/ PlotStride
  \/ StrideLoopErrorbar
  \/ StrideLoopSkip
  \/ PltSavefig
  \/ PltSavefigRaises
  \/ PltCloseReturn
  \/ ProcessDeviceReturn
  \/ MainReturn

Next == Step \/ Rerun

Spec == Init /\ [][Next]_vars

--------------------------------------------------------------------------
\* The renderers on arbitrary tables: process_device has loaded its six
\* tables, one of them any table of up to MaxRows rows and the others tables
\* without rows, and makes its four renderer calls.

TablesFor(f) ==
  IF IsStrideFile(f) THEN SeqsUpTo(StrideRows, MaxRows)
  ELSE SeqsUpTo(SizeRows, MaxRows)

InitPlot ==
  \E slot \in FileSet : \E T \in TablesFor(slot) :
    /\ fs = [d \in DeviceNames |-> [f \in FileSet |->
               [status |-> "ok",
                rows |-> IF d = Devices[1].name /\ f = slot THEN T ELSE <<>>]]]
    /\ unwritable = {}
    /\ dirExists = TRUE
    /\ plots = NoPlots
    /\ run = 1
    /\ prev = NoPlots
    /\ pc = "plot"
    /\ dev = 1
    /\ k = 1
    /\ loaded = [f \in FileSet |-> IF f = slot THEN T ELSE <<>>]
    /\ frame = NoFrame
    /\ i = 1
    /\ figs = <<>>
    /\ events = [j \in 1..Len(Files) |->
                   Event("read", Devices[1].name, Files[j], "")]

NextPlot ==
  \/ PlotIoSize
  \/ IoErrorbarSeq
  \/ IoErrorbarRandom
  \/ PlotStride
  \/ StrideLoopErrorbar
  \/ StrideLoopSkip
  \/ PltSavefig
  \/ PltCloseReturn

SpecPlot == InitPlot /\ [][NextPlot]_vars

--------------------------------------------------------------------------
\* What the claims speak of.

Terminated == pc \in {"done", "error"}

DeviceIndex(name) == CHOOSE n \in 1..Len(Devices) : Devices[n].name = name

InputsOk(d) == \A f \in FileSet : fs[d][f].status = "ok"
ChartsOf(d) == {p \in ChartPaths : p.device = d}

\* The chart at path p is as it was when the run started.
Untouched(p) ==
  /\ p \in DOMAIN plots <=> p \in DOMAIN prev
  /\ p \in DOMAIN plots => plots[p] = prev[p]

EventsOf(d, evs) ==
  {n \in DOMAIN events : events[n].dev = d /\ events[n].ev \in evs}

\* The chart writes of the run, in order.
Writes == SelectSeq(events, LAMBDA e : e.ev = "write")

\* The rows of data whose grouping column holds key, by position.
GroupOf(data, by, key) == {j \in 1..Len(data) : data[j][by] = key}

\* The fixed I/O sizes that some row of data carries, in the order of io_sizes.
PresentSizes(data) ==
  SelectSeq(io_sizes, LAMBDA z : \E j \in 1..Len(data) : data[j].io_size = z)

\* The aggregations whose result is on the current figure: the table that
\* was grouped, the grouping column, and the series it gave.
Aggregated ==
  IF pc = "io_random"
  THEN {[data |-> frame.seq_data, by |-> "io_size",
         series |-> CurrentFigure[1]]}
  ELSE IF pc = "savefig" /\ frame.fn = "plot_io_size"
  THEN {[data |-> frame.seq_data, by |-> "io_size",
         series |-> CurrentFigure[1]],
        [data |-> frame.random_data, by |-> "io_size",
         series |-> CurrentFigure[2]]}
  ELSE IF pc = "savefig" /\ frame.fn = "plot_stride"
  THEN LET sizes == PresentSizes(frame.stride_data)
       IN  {[data |-> SelectSeq(frame.stride_data,
                                LAMBDA r : r.io_size = sizes[n]),
             by |-> "stride_size", series |-> CurrentFigure[n]] :
              n \in 1..(IF Len(sizes) < Len(CurrentFigure) THEN Len(sizes)
                        ELSE Len(CurrentFigure))}
  ELSE {}

NoMissingCells(data) ==
  \A j \in 1..Len(data) : data[j].mean # NaN /\ data[j].ci95 # NaN

--------------------------------------------------------------------------
\* C1: for every table and grouping column, every group key is aggregated,
\* and its aggregated mean and ci95 are those of the last row in file order
\* that carries the key.
C1_LastRowValues ==
  \A a \in Aggregated :
    /\ \A j \in 1..Len(a.data) :
         a.data[j][a.by] # NaN => a.data[j][a.by] \in Range(a.series.x)
    /\ \A n \in 1..Len(a.series.x) :
         LET g == GroupOf(a.data, a.by, a.series.x[n])
         IN  /\ g # {}
             /\ a.series.y[n] = a.data[MaxOf(g)].mean
             /\ a.series.yerr[n] = a.data[MaxOf(g)].ci95

\* C1 where no cell is missing: the last row's values, whatever rows precede.
C1_LastRowValuesWhenComplete ==
  \A a \in Aggregated :
    NoMissingCells(a.data) =>
      \A n \in 1..Len(a.series.x) :
        LET g == GroupOf(a.data, a.by, a.series.x[n])
        IN  /\ g # {}
            /\ a.series.y[n] = a.data[MaxOf(g)].mean
            /\ a.series.yerr[n] = a.data[MaxOf(g)].ci95

\* C2 as stated: the group keys handed to errorbar are in the order of each
\* key's first appearance in the table.
C2_FirstAppearanceOrder ==
  \A a \in Aggregated :
    a.series.x = SelectSeq(Unique(Column(a.data, a.by)), LAMBDA v : v # NaN)

\* C2 amended: the group keys handed to errorbar are the distinct
\* non-missing values of the grouping column in ascending order, whatever
\* the order of the rows.
C2_KeysAscending ==
  \A a \in Aggregated :
    /\ Range(a.series.x) = Range(Column(a.data, a.by)) \ {NaN}
    /\ \A m, n \in 1..Len(a.series.x) : m < n => a.series.x[m] < a.series.x[n]

\* A table whose first row carries a larger key than its second row has
\* been aggregated.
C2_Witness ==
  \E a \in Aggregated :
    /\ Len(a.data) >= 2
    /\ a.data[1][a.by] # NaN
    /\ a.data[2][a.by] # NaN
    /\ a.data[1][a.by] > a.data[2][a.by]
    /\ a.series.x = <<a.data[2][a.by], a.data[1][a.by]>>

\* C3: plot_stride adds exactly one series for each of the five fixed I/O
\* sizes that some row carries, in the order of the five, built from the
\* rows of that size alone, and none for any other size; a size without
\* rows is passed over and the loop goes on.
C3_OneSeriesPerPresentSize ==
  frame.fn = "plot_stride" =>
    LET sizes == PresentSizes(frame.stride_data)
        seen == IF pc = "stride_loop" THEN i - 1 ELSE Len(io_sizes)
        done == SelectSeq(sizes,
                  LAMBDA z : \E n \in 1..seen : io_sizes[n] = z)
    IN  /\ pc # "error"
        /\ pc = "stride_loop" =>
             ENABLED (StrideLoopErrorbar \/ StrideLoopSkip)
        /\ Len(CurrentFigure) = Len(done)
        /\ \A n \in 1..Len(done) :
             /\ CurrentFigure[n].label.kb * 1024 = done[n]
             /\ Range(CurrentFigure[n].x) =
                  {frame.stride_data[j].stride_size :
                     j \in {m \in 1..Len(frame.stride_data) :
                              frame.stride_data[m].io_size = done[n]}}

\* The loop has ended on a table that has rows of the first fixed size, rows
\* of a size outside the five and no row of the last fixed size.
C3_Witness ==
  /\ pc = "savefig"
  /\ frame.fn = "plot_stride"
  /\ \E j \in 1..Len(frame.stride_data) : frame.stride_data[j].io_size = 4096
  /\ \E j \in 1..Len(frame.stride_data) : frame.stride_data[j].io_size = 2048
  /\ Len(CurrentFigure) = 1

\* C4: with all twelve input files present and valid (and every output path
\* writable), the first run, started on an empty benchmark_plots, never fails,
\* goes on until main returns and then has written exactly the eight charts.
C4_EightCharts ==
  (run = 1 /\ unwritable = {} /\ \A d \in DeviceNames : InputsOk(d)) =>
    /\ pc # "error"
    /\ pc # "done" => ENABLED Step
    /\ pc = "done" =>
         DOMAIN plots =
           {ChartPath(kd, d, op) : kd \in {"io_size", "stride"},
                                   d \in {"HDD", "SSD"},
                                   op \in {"read", "write"}}

C4_Witness ==
  /\ run = 1
  /\ pc = "done"
  /\ prev = NoPlots
  /\ Cardinality(DOMAIN plots) = 8

\* C5: when one of a device's six input files is missing or does not load,
\* process_device for that device calls no renderer and writes no chart, and
\* the device's chart files stay as they were; a renderer call or chart
\* write of a device comes after all six reads of that device.
C5_NoChartOnLoadFailure ==
  \A d \in DeviceNames :
    /\ ~InputsOk(d) =>
         /\ EventsOf(d, {"call", "write"}) = {}
         /\ \A p \in ChartsOf(d) : Untouched(p)
    /\ \A n \in EventsOf(d, {"call", "write"}) :
         Cardinality({m \in EventsOf(d, {"read"}) : m < n}) = Len(Files)

\* The last of SSD's six loads has failed after HDD's charts were written.
C5_Witness ==
  /\ pc = "error"
  /\ dev = 2
  /\ fs["SSD"]["stride_write"].status # "ok"
  /\ Cardinality(EventsOf("SSD", {"read"})) = 6
  /\ DOMAIN plots = ChartsOf("HDD")

\* C6: a second run over the same inputs, started when all eight charts
\* exist, never fails, goes on until main returns, and leaves the same eight
\* files with the same charts.
C6_RerunIdempotent ==
  (run >= 2 /\ DOMAIN prev = ChartPaths) =>
    /\ pc # "error"
    /\ dirExists
    /\ pc # "done" => ENABLED Step
    /\ DOMAIN plots = ChartPaths
    /\ pc = "done" => plots = prev

C6_Witness ==
  /\ run = 2
  /\ pc = "done"
  /\ Cardinality(DOMAIN prev) = 8
  /\ Len(Writes) = 8

\* C7: the devices are processed in the order HDD, SSD, and when a load or a
\* chart write of HDD fails, no SSD input is read and no SSD chart is
\* written.
C7_NoFaultIsolation ==
  /\ \A m, n \in DOMAIN events :
       m < n => DeviceIndex(events[m].dev) <= DeviceIndex(events[n].dev)
  /\ (~InputsOk("HDD") \/ ChartsOf("HDD") \cap unwritable # {}) =>
       /\ EventsOf("SSD", {"read", "call", "write"}) = {}
       /\ \A p \in ChartsOf("SSD") : Untouched(p)
  /\ EventsOf("SSD", {"read", "call", "write"}) # {} =>
       /\ Cardinality(EventsOf("HDD", {"read"})) = 6
       /\ Cardinality(EventsOf("HDD", {"write"})) = 4

\* HDD's last chart write has failed.
C7_Witness ==
  /\ pc = "error"
  /\ dev = 1
  /\ ChartPath("stride", "HDD", "write") \in unwritable
  /\ Cardinality(EventsOf("HDD", {"write"})) = 3

\* C8: each renderer call works on a figure of its own, empty when the call
\* starts; at most one figure is open at any time and none is open after a
\* renderer has returned.
C8_FiguresReleased ==
  /\ Len(figs) <= 1
  /\ pc \in {"main", "call", "load", "plot", "done"} => figs = <<>>
  /\ pc \in {"io_seq", "io_random", "stride_loop", "savefig", "close"} =>
       Len(figs) = 1
  /\ pc = "io_seq" => CurrentFigure = <<>>
  /\ (pc = "stride_loop" /\ i = 1) => CurrentFigure = <<>>

C8_Witness ==
  /\ pc = "done"
  /\ Cardinality({n \in DOMAIN events : events[n].ev = "call"}) = 8
  /\ figs = <<>>

\* C9: the aggregated mean and the aggregated ci95 of a group are both taken
\* from one row, the group's last row, also when cells are missing.
C9_MeanAndCiFromLastRow ==
  \A a \in Aggregated :
    \A n \in 1..Len(a.series.x) :
      \E j \in GroupOf(a.data, a.by, a.series.x[n]) :
        /\ \A m \in GroupOf(a.data, a.by, a.series.x[n]) : m <= j
        /\ a.series.y[n] = a.data[j].mean
        /\ a.series.yerr[n] = a.data[j].ci95

\* C9 without naming the row: mean and ci95 come from some one row.
C9_MeanAndCiFromOneRow ==
  \A a \in Aggregated :
    \A n \in 1..Len(a.series.x) :
      \E j \in GroupOf(a.data, a.by, a.series.x[n]) :
        /\ a.series.y[n] = a.data[j].mean
        /\ a.series.yerr[n] = a.data[j].ci95

\* The order the charts are written in: line 73, 74, 75, 76 for HDD, then
\* the same for SSD.
WriteOrder ==
  << Event("write", "HDD", "io_size", "read"),
     Event("write", "HDD", "io_size", "write"),
     Event("write", "HDD", "stride", "read"),
     Event("write", "HDD", "stride", "write"),
     Event("write", "SSD", "io_size", "read"),
     Event("write", "SSD", "io_size", "write"),
     Event("write", "SSD", "stride", "read"),
     Event("write", "SSD", "stride", "write") >>

\* C10: the charts are written in the fixed order and never rolled back:
\* whatever step fails, every chart written before it is in benchmark_plots;
\* with HDD's inputs valid and its charts writable and an SSD input that
\* does not load, the run goes on until it ends in an error, with exactly
\* HDD's four charts written.
C10_WritesRemain ==
  /\ Len(Writes) <= Len(WriteOrder)
  /\ \A n \in 1..Len(Writes) :
       /\ Writes[n] = WriteOrder[n]
       /\ ChartPath(Writes[n].what, Writes[n].dev, Writes[n].operation)
            \in DOMAIN plots
  /\ (run = 1 /\ InputsOk("HDD") /\ ChartsOf("HDD") \cap unwritable = {}
        /\ ~InputsOk("SSD")) =>
       /\ pc # "done"
       /\ ~Terminated => ENABLED Step
       /\ pc = "error" => DOMAIN plots = ChartsOf("HDD")

C10_Witness ==
  /\ pc = "error"
  /\ run = 1
  /\ dev = 2
  /\ fs["SSD"]["sequential_size_read"].status = "missing"
  /\ Len(Writes) = 4
  /\ DOMAIN plots = ChartsOf("HDD")

====
